---- MODULE Spec2Model ----
(***************************************************************************)
(* A model of bitcoin_address_validator.py: the Base58Check codec, the     *)
(* Bech32/Bech32m codec and the address classifier built on them.          *)
(*                                                                         *)
(* A string is the sequence of its code points, a bytes object the         *)
(* sequence of its bytes.  A Python value that may be None is a record     *)
(* with a tag; the tag "Raise" stands for an exception leaving the call.   *)
(***************************************************************************)
EXTENDS Integers, Sequences, FiniteSets, TLC

VARIABLES
    address,    \* the string handed to the function under test
    pc,         \* where the call stands: "start", "decoded", "done"
    result,     \* what the function returned
    codec,      \* the codec validate() dispatched to: "none", "base58", "bech32"
    dec,        \* what base58_decode / decode_bech32 returned
    origin      \* for a substituted address: the address and label it was derived from

vars == <<address, pc, result, codec, dec, origin>>

(***************************************************************************)
(* Loops.  `for v in values: acc = Op(acc, v)` is a left fold.  The range  *)
(* is halved and the left half is evaluated before the right half starts,  *)
(* which keeps the evaluation depth logarithmic in the length.             *)
(***************************************************************************)
FoldLeft(Op(_, _), acc0, s) ==
    LET RECURSIVE Go(_, _, _)
        Go(acc, lo, hi) ==
            IF lo > hi THEN acc
            ELSE IF lo = hi THEN Op(acc, s[lo])
            ELSE LET mid == (lo + hi) \div 2
                     left == Go(acc, lo, mid)
                 IN IF left = left THEN Go(left, mid + 1, hi) ELSE left
    IN Go(acc0, 1, Len(s))

Range(a, b) == [i \in 1..(b - a + 1) |-> a + i - 1]

Reverse(s) == [i \in 1..Len(s) |-> s[Len(s) + 1 - i]]

Zeros(n) == [i \in 1..n |-> 0]

(***************************************************************************)
(* Bit operations on non-negative integers below 2^31: an integer is taken *)
(* to the set of positions of its one-bits and back.                       *)
(***************************************************************************)
Bits(n) == {i \in 0..30 : (n \div 2^i) % 2 = 1}

RECURSIVE FromBits(_, _, _)
FromBits(S, lo, hi) ==
    IF lo = hi THEN (IF lo \in S THEN 2^lo ELSE 0)
    ELSE FromBits(S, lo, (lo + hi) \div 2) + FromBits(S, (lo + hi) \div 2 + 1, hi)

SymDiff(A, B) == (A \ B) \cup (B \ A)

(***************************************************************************)
(* str methods used by the source.                                         *)
(***************************************************************************)
Contains(s, c) == \E i \in 1..Len(s) : s[i] = c

\* str.find / str.index position, 0-based; -1 when c does not occur
Find(s, c) ==
    IF Contains(s, c)
    THEN (CHOOSE i \in 1..Len(s) : s[i] = c /\ \A j \in 1..(i - 1) : s[j] # c) - 1
    ELSE -1

\* str.rfind, 0-based; -1 when c does not occur
RFind(s, c) ==
    IF Contains(s, c)
    THEN (CHOOSE i \in 1..Len(s) : s[i] = c /\ \A j \in (i + 1)..Len(s) : s[j] # c) - 1
    ELSE -1

StartsWith(s, p) == Len(s) >= Len(p) /\ \A i \in 1..Len(p) : s[i] = p[i]

\* str.lower / str.upper on one code point: the ASCII letters and the Latin-1
\* letters U+00C0..U+00DE and U+00E0..U+00FE, whose other case is one code
\* point of the same range; the strings of this model hold no other letter
IsUpperChar(c) == (c >= 65 /\ c <= 90) \/ (c >= 192 /\ c <= 222 /\ c # 215)

IsLowerChar(c) == (c >= 97 /\ c <= 122) \/ (c >= 224 /\ c <= 254 /\ c # 247)

LowerChar(c) == IF IsUpperChar(c) THEN c + 32 ELSE c

UpperChar(c) == IF IsLowerChar(c) THEN c - 32 ELSE c

Lower(s) == [i \in 1..Len(s) |-> LowerChar(s[i])]

Upper(s) == [i \in 1..Len(s) |-> UpperChar(s[i])]

\* the number of leading characters c of s
LeadingCount(s, c) ==
    IF \A i \in 1..Len(s) : s[i] = c THEN Len(s)
    ELSE (CHOOSE i \in 1..Len(s) : s[i] # c /\ \A j \in 1..(i - 1) : s[j] = c) - 1

\* s.lstrip(c)
LStrip(s, c) == SubSeq(s, LeadingCount(s, c) + 1, Len(s))

(***************************************************************************)
(* hashlib.sha256 (FIPS 180-4).  A 32-bit word is the set of positions of  *)
(* its one-bits, a subset of 0..31, bit 0 the least significant; sums are  *)
(* formed on the two 16-bit halves.                                        *)
(***************************************************************************)
WordOf(hi, lo) ==
    {i \in 0..15 : (lo \div 2^i) % 2 = 1} \cup {i \in 16..31 : (hi \div 2^(i - 16)) % 2 = 1}

Bit(w, i) == IF i \in w THEN 1 ELSE 0

\* the low and the high 16 bits of a word, as integers
Lo16(w) ==
    IF w = {} THEN 0
    ELSE ((((1 * Bit(w, 0) + 2 * Bit(w, 1)) + (4 * Bit(w, 2) + 8 * Bit(w, 3)))
         + ((16 * Bit(w, 4) + 32 * Bit(w, 5)) + (64 * Bit(w, 6) + 128 * Bit(w, 7))))
         + (((256 * Bit(w, 8) + 512 * Bit(w, 9)) + (1024 * Bit(w, 10) + 2048 * Bit(w, 11)))
         + ((4096 * Bit(w, 12) + 8192 * Bit(w, 13)) + (16384 * Bit(w, 14) + 32768 * Bit(w, 15)))))

Hi16(w) ==
    IF w = {} THEN 0
    ELSE ((((1 * Bit(w, 16) + 2 * Bit(w, 17)) + (4 * Bit(w, 18) + 8 * Bit(w, 19)))
         + ((16 * Bit(w, 20) + 32 * Bit(w, 21)) + (64 * Bit(w, 22) + 128 * Bit(w, 23))))
         + (((256 * Bit(w, 24) + 512 * Bit(w, 25)) + (1024 * Bit(w, 26) + 2048 * Bit(w, 27)))
         + ((4096 * Bit(w, 28) + 8192 * Bit(w, 29)) + (16384 * Bit(w, 30) + 32768 * Bit(w, 31)))))

\* the word of a sum given by the sums of its halves, modulo 2^32
Norm(hi, lo) ==
    IF lo < 65536 THEN WordOf(hi % 65536, lo)
    ELSE WordOf((hi + lo \div 65536) % 65536, lo % 65536)

Add2(a, b) == Norm(Hi16(a) + Hi16(b), Lo16(a) + Lo16(b))

Add4(a, b, c, d) ==
    Norm(Hi16(a) + Hi16(b) + Hi16(c) + Hi16(d), Lo16(a) + Lo16(b) + Lo16(c) + Lo16(d))

Add5(a, b, c, d, e) ==
    Norm(Hi16(a) + Hi16(b) + Hi16(c) + Hi16(d) + Hi16(e),
         Lo16(a) + Lo16(b) + Lo16(c) + Lo16(d) + Lo16(e))

RotR(w, n) == {(i + 32 - n) % 32 : i \in w}

ShR(w, n) == {i - n : i \in {j \in w : j >= n}}

Xor3(a, b, c) == SymDiff(SymDiff(a, b), c)

Ch(e, f, g) == (e \cap f) \cup (g \ e)

Maj(a, b, c) == (a \cap b) \cup (a \cap c) \cup (b \cap c)

BigSigma0(a) == Xor3(RotR(a, 2), RotR(a, 13), RotR(a, 22))

BigSigma1(e) == Xor3(RotR(e, 6), RotR(e, 11), RotR(e, 25))

SmallSigma0(w) == Xor3(RotR(w, 7), RotR(w, 18), ShR(w, 3))

SmallSigma1(w) == Xor3(RotR(w, 17), RotR(w, 19), ShR(w, 10))

\* the round constants and the initial hash value, each word as <<high half, low half>>
SHA256_K ==
    <<<<17034, 12184>>, <<28983, 17553>>, <<46528, 64463>>, <<59829, 56229>>, <<14678, 49755>>, <<23025, 4593>>,
    <<37439, 33444>>, <<43804, 24277>>, <<55303, 43672>>, <<4739, 23297>>, <<9265, 34238>>, <<21772, 32195>>,
    <<29374, 23924>>, <<32990, 45566>>, <<39900, 1703>>, <<49563, 61812>>, <<58523, 27073>>, <<61374, 18310>>,
    <<4033, 40390>>, <<9228, 41420>>, <<11753, 11375>>, <<19060, 33962>>, <<23728, 43484>>, <<30457, 35034>>,
    <<38974, 20818>>, <<43057, 50797>>, <<45059, 10184>>, <<48985, 32711>>, <<50912, 3059>>, <<54695, 37191>>,
    <<1738, 25425>>, <<5161, 10599>>, <<10167, 2693>>, <<11803, 8504>>, <<19756, 28156>>, <<21304, 3347>>,
    <<25866, 29524>>, <<30314, 2747>>, <<33218, 51502>>, <<37490, 11397>>, <<41663, 59553>>, <<43034, 26187>>,
    <<49739, 35696>>, <<51052, 20899>>, <<53650, 59417>>, <<54937, 1572>>, <<62478, 13701>>, <<4202, 41072>>,
    <<6564, 49430>>, <<7735, 27656>>, <<10056, 30540>>, <<13488, 48309>>, <<14620, 3251>>, <<20184, 43594>>,
    <<23452, 51791>>, <<26670, 28659>>, <<29839, 33518>>, <<30885, 25455>>, <<33992, 30740>>, <<36039, 520>>,
    <<37054, 65530>>, <<42064, 27883>>, <<48889, 41975>>, <<50801, 30962>>>>

SHA256_H0 ==
    <<<<27145, 58983>>, <<47975, 44677>>, <<15470, 62322>>, <<42319, 62778>>, <<20750, 21119>>, <<39685, 26764>>,
    <<8067, 55723>>, <<23520, 52505>>>>

SHA256_KW == [t \in 1..64 |-> WordOf(SHA256_K[t][1], SHA256_K[t][2])]

SHA256_H0W == <<WordOf(SHA256_H0[1][1], SHA256_H0[1][2]), WordOf(SHA256_H0[2][1], SHA256_H0[2][2]),
                WordOf(SHA256_H0[3][1], SHA256_H0[3][2]), WordOf(SHA256_H0[4][1], SHA256_H0[4][2]),
                WordOf(SHA256_H0[5][1], SHA256_H0[5][2]), WordOf(SHA256_H0[6][1], SHA256_H0[6][2]),
                WordOf(SHA256_H0[7][1], SHA256_H0[7][2]), WordOf(SHA256_H0[8][1], SHA256_H0[8][2])>>

\* the message schedule: word t from words t-2, t-7, t-15, t-16
ScheduleStep(w, t) ==
    Append(w, Add4(SmallSigma1(w[t - 2]), w[t - 7], SmallSigma0(w[t - 15]), w[t - 16]))

Schedule(block) == FoldLeft(ScheduleStep, block, Range(17, 64))

Round(s, k, w) ==
    LET t1 == Add5(s[8], BigSigma1(s[5]), Ch(s[5], s[6], s[7]), k, w)
        t2 == Add2(BigSigma0(s[1]), Maj(s[1], s[2], s[3]))
    IN <<Add2(t1, t2), s[1], s[2], s[3], Add2(s[4], t1), s[5], s[6], s[7]>>

\* the 64 rounds on the state h with the schedule w
Rounds(h, w) ==
    LET RoundStep(s, t) == Round(s, SHA256_KW[t], w[t])
    IN IF Len(w) = 64 THEN FoldLeft(RoundStep, h, Range(1, 64)) ELSE <<>>

\* the state after the rounds is added to the state before them, word by word
AddState(h, s) ==
    IF Len(s) = 8
    THEN <<Add2(h[1], s[1]), Add2(h[2], s[2]), Add2(h[3], s[3]), Add2(h[4], s[4]),
           Add2(h[5], s[5]), Add2(h[6], s[6]), Add2(h[7], s[7]), Add2(h[8], s[8])>>
    ELSE <<>>

Compress(h, block) == AddState(h, Rounds(h, Schedule(block)))

\* the message, the byte 0x80, zero bytes up to 56 modulo 64, the bit length in 8 bytes
Sha256Pad(m) ==
    LET n == Len(m)
        bits == 8 * n
    IN m \o <<128>> \o Zeros((119 - n) % 64) \o <<0, 0, 0, 0>> \o
       <<(bits \div 16777216) % 256, (bits \div 65536) % 256, (bits \div 256) % 256, bits % 256>>

\* the 16 big-endian words of block b of the padded message p
BlockWords(p, b) ==
    LET Word(j) == WordOf(p[64 * (b - 1) + 4 * j - 3] * 256 + p[64 * (b - 1) + 4 * j - 2],
                          p[64 * (b - 1) + 4 * j - 1] * 256 + p[64 * (b - 1) + 4 * j])
    IN <<Word(1), Word(2), Word(3), Word(4), Word(5), Word(6), Word(7), Word(8),
         Word(9), Word(10), Word(11), Word(12), Word(13), Word(14), Word(15), Word(16)>>

WordBytes(w) == <<Hi16(w) \div 256, Hi16(w) % 256, Lo16(w) \div 256, Lo16(w) % 256>>

\* the compression function over the blocks of the padded message p
HashBlocks(p) ==
    LET BlockStep(h, b) == Compress(h, BlockWords(p, b))
    IN IF Len(p) >= 64 THEN FoldLeft(BlockStep, SHA256_H0W, Range(1, Len(p) \div 64)) ELSE <<>>

\* the 32 bytes of the state h, each word big-endian
Digest(h) ==
    IF Len(h) = 8
    THEN [i \in 1..32 |-> WordBytes(h[(i + 3) \div 4])[((i - 1) % 4) + 1]]
    ELSE <<>>

\* hashlib.sha256(m).digest()
sha256(m) == Digest(HashBlocks(Sha256Pad(m)))

(***************************************************************************)
(* Python values.                                                          *)
(***************************************************************************)
PyNone == [tag |-> "None", val |-> <<>>]

\* an exception leaving the call
PyRaise == [tag |-> "Raise", val |-> <<>>]

PyInt(n) == [tag |-> "int", val |-> n]

PyBytes(b) == [tag |-> "bytes", val |-> b]

PyBool(b) == [tag |-> "bool", val |-> b]

PyStr(s) == [tag |-> "str", val |-> s]

PyTuple(hrp, data) == [tag |-> "tuple", val |-> [hrp |-> hrp, data |-> data]]

(***************************************************************************)
(* Python's int is unbounded.  A non-negative int is held as the sequence  *)
(* of its base-256 digits, most significant first, without leading zeros;  *)
(* 0 is the empty sequence.                                                *)
(***************************************************************************)
\* num * m + d, for 0 <= d < m <= 256: the carry then stays below m
IntMulAdd(num, m, d) ==
    LET Step(acc, digit) ==
            [carry |-> (digit * m + acc.carry) \div 256,
             out |-> <<(digit * m + acc.carry) % 256>> \o acc.out]
        r == FoldLeft(Step, [carry |-> d, out |-> <<>>], Reverse(num))
    IN IF r.carry = 0 THEN r.out ELSE <<r.carry>> \o r.out

\* int.bit_length()
BitLength(num) ==
    IF Len(num) = 0 THEN 0
    ELSE 8 * (Len(num) - 1) + Cardinality({i \in 0..7 : 2^i <= num[1]})

\* int.to_bytes(length, byteorder='big'): OverflowError when the int does not fit
ToBytes(num, length) ==
    IF Len(num) > length THEN PyRaise
    ELSE PyBytes(Zeros(length - Len(num)) \o num)

(***************************************************************************)
(* Base58Check codec                                                       *)
(***************************************************************************)
\* '123456789ABCDEFGHJKLMNPQRSTUVWXYZabcdefghijkmnopqrstuvwxyz'
BASE58_ALPHABET ==
    <<49, 50, 51, 52, 53, 54, 55, 56, 57, 65, 66, 67, 68, 69, 70, 71, 72, 74, 75, 76,
      77, 78, 80, 81, 82, 83, 84, 85, 86, 87, 88, 89, 90, 97, 98, 99, 100, 101, 102,
      103, 104, 105, 106, 107, 109, 110, 111, 112, 113, 114, 115, 116, 117, 118, 119,
      120, 121, 122>>

\* Base58Step without the test `if char not in ALPHABET`
Base58StepUnguarded(num, char) ==
    IF num.tag # "int" THEN num
    ELSE IF Find(BASE58_ALPHABET, char) < 0 THEN PyRaise
    ELSE PyInt(IntMulAdd(num.val, 58, Find(BASE58_ALPHABET, char)))

\* one pass of the loop body: `if char not in ALPHABET: return None`, then
\* num = num * 58 + ALPHABET.index(char); str.index raises ValueError when absent
Base58Step(num, char) ==
    IF num.tag # "int" THEN num
    ELSE IF ~Contains(BASE58_ALPHABET, char) THEN PyNone
    ELSE IF Find(BASE58_ALPHABET, char) < 0 THEN PyRaise
    ELSE PyInt(IntMulAdd(num.val, 58, Find(BASE58_ALPHABET, char)))

\* n_pad counting every '1' of s, not only the leading ones
NPadEveryOne(s) == Cardinality({i \in 1..Len(s) : s[i] = 49})

\* n_pad = len(s) - len(s.lstrip('1'))
NPad(s) == Len(s) - Len(LStrip(s, 49))

base58_decode(s) ==
    LET num == FoldLeft(Base58Step, PyInt(<<>>), s)
    IN IF num.tag # "int" THEN num
       ELSE LET combined == ToBytes(num.val, (BitLength(num.val) + 7) \div 8)
            IN IF combined.tag # "bytes" THEN combined
               ELSE PyBytes(Zeros(NPad(s)) \o combined.val)

\* b[-n:] and b[:-n] for n > 0
LastBytes(b, n) == SubSeq(b, IF Len(b) > n THEN Len(b) - n + 1 ELSE 1, Len(b))

DropLastBytes(b, n) == SubSeq(b, 1, IF Len(b) > n THEN Len(b) - n ELSE 0)

\* `not decoded`: None and the empty bytes object are falsy
Falsy(v) == v.tag = "None" \/ (v.tag = "bytes" /\ Len(v.val) = 0)

\* the checksum test with one application of SHA-256 in place of two
ChecksumMatchesSingleHash(decoded) ==
    LET checksum == LastBytes(decoded, 4)
        vh160 == DropLastBytes(decoded, 4)
        h == sha256(vh160)
    IN checksum = SubSeq(h, 1, 4)

\* the checksum test on the decoded bytes
ChecksumMatches(decoded) ==
    LET checksum == LastBytes(decoded, 4)
        vh160 == DropLastBytes(decoded, 4)
        h == sha256(sha256(vh160))
    IN checksum = SubSeq(h, 1, 4)

\* the body of base58_check after `decoded = base58_decode(s)`
CheckDecoded(decoded) ==
    IF decoded.tag = "Raise" THEN PyRaise
    ELSE IF Falsy(decoded) \/ Len(decoded.val) < 4 THEN PyBool(FALSE)
    ELSE PyBool(ChecksumMatches(decoded.val))

base58_check(s) == CheckDecoded(base58_decode(s))

(***************************************************************************)
(* Bech32 codec                                                            *)
(***************************************************************************)
\* 'qpzry9x8gf2tvdw0s3jn54khce6mua7l'
BECH32_CHARSET ==
    <<113, 112, 122, 114, 121, 57, 120, 56, 103, 102, 50, 116, 118, 100, 119, 48,
      115, 51, 106, 110, 53, 52, 107, 104, 99, 101, 54, 109, 117, 97, 55, 108>>

\* [0x3b6a57b2, 0x26508e6d, 0x1ea119fa, 0x3d4233dd, 0x2a1462b3]
GENERATORS == <<996825010, 642813549, 513874426, 1027748829, 705979059>>

GENERATOR_BITS ==
    <<Bits(GENERATORS[1]), Bits(GENERATORS[2]), Bits(GENERATORS[3]), Bits(GENERATORS[4]),
      Bits(GENERATORS[5])>>

\* One pass of the loop of bech32_polymod, chk held as the set of its one-bits:
\*   b = chk >> 25; chk = ((chk & 0x1ffffff) << 5) ^ v
\*   for i in range(5): if (b >> i) & 1: chk ^= GENERATORS[i]
PolymodStep(chk, v) ==
    LET b == {i - 25 : i \in {j \in chk : j >= 25}}
        shifted == SymDiff({i + 5 : i \in {j \in chk : j < 25}}, Bits(v))
        GenStep(c, i) == IF i \in b THEN SymDiff(c, GENERATOR_BITS[i + 1]) ELSE c
    IN FoldLeft(GenStep, shifted, Range(0, 4))

bech32_polymod(values) == FromBits(FoldLeft(PolymodStep, Bits(1), values), 0, 30)

\* [ord(x) >> 5 for x in hrp] + [0] + [ord(x) & 31 for x in hrp]
bech32_hrp_expand(hrp) ==
    [i \in 1..Len(hrp) |-> hrp[i] \div 32] \o <<0>> \o [i \in 1..Len(hrp) |-> hrp[i] % 32]

BECH32_CONST == 1

BECH32M_CONST == 734539939

\* bech32_verify_checksum comparing the low 25 bits of the polymod only
bech32_verify_checksum_low_bits(hrp, data) ==
    bech32_polymod(bech32_hrp_expand(hrp) \o data) % 33554432 = BECH32_CONST

bech32_verify_checksum(hrp, data) ==
    bech32_polymod(bech32_hrp_expand(hrp) \o data) = BECH32_CONST

\* bech32m_verify_checksum comparing with the Bech32 constant
bech32m_verify_checksum_bech32_const(hrp, data) ==
    bech32_polymod(bech32_hrp_expand(hrp) \o data) = BECH32_CONST

bech32m_verify_checksum(hrp, data) ==
    bech32_polymod(bech32_hrp_expand(hrp) \o data) = BECH32M_CONST

\* decode_bech32 without the test for mixed case
decode_bech32_any_case(addr) ==
    IF \E i \in 1..Len(addr) : addr[i] < 33 \/ addr[i] > 126 THEN PyNone
    ELSE LET lowered == Lower(addr)
             pos == RFind(lowered, 49)
         IN IF pos = -1 \/ pos < 1 \/ pos + 7 > Len(lowered) THEN PyNone
            ELSE LET hrp == SubSeq(lowered, 1, pos)
                     data == SubSeq(lowered, pos + 2, Len(lowered))
                 IN IF \E i \in 1..Len(data) : ~Contains(BECH32_CHARSET, data[i])
                    THEN PyNone
                    ELSE PyTuple(hrp, [i \in 1..Len(data) |-> Find(BECH32_CHARSET, data[i])])

\* decode_bech32 asking for 5 characters after the separator in place of 6
decode_bech32_five_after(addr) ==
    IF \E i \in 1..Len(addr) : addr[i] < 33 \/ addr[i] > 126 THEN PyNone
    ELSE IF Lower(addr) # addr /\ Upper(addr) # addr THEN PyNone
    ELSE LET lowered == Lower(addr)
             pos == RFind(lowered, 49)
         IN IF pos = -1 \/ pos < 1 \/ pos + 6 > Len(lowered) THEN PyNone
            ELSE LET hrp == SubSeq(lowered, 1, pos)
                     data == SubSeq(lowered, pos + 2, Len(lowered))
                 IN IF \E i \in 1..Len(data) : ~Contains(BECH32_CHARSET, data[i])
                    THEN PyNone
                    ELSE PyTuple(hrp, [i \in 1..Len(data) |-> Find(BECH32_CHARSET, data[i])])

decode_bech32(addr) ==
    IF \E i \in 1..Len(addr) : addr[i] < 33 \/ addr[i] > 126 THEN PyNone
    ELSE IF Lower(addr) # addr /\ Upper(addr) # addr THEN PyNone
    ELSE LET lowered == Lower(addr)
             pos == RFind(lowered, 49)
         IN IF pos = -1 \/ pos < 1 \/ pos + 7 > Len(lowered) THEN PyNone
            ELSE LET hrp == SubSeq(lowered, 1, pos)
                     data == SubSeq(lowered, pos + 2, Len(lowered))
                 IN IF \E i \in 1..Len(data) : ~Contains(BECH32_CHARSET, data[i])
                    THEN PyNone
                    ELSE PyTuple(hrp, [i \in 1..Len(data) |-> Find(BECH32_CHARSET, data[i])])

\* the body of validate_bech32 after `decode_result = decode_bech32(addr)`
ChecksumType(decode_result) ==
    IF decode_result.tag = "None" THEN PyStr("Invalid")
    ELSE IF bech32_verify_checksum(decode_result.val.hrp, decode_result.val.data)
         THEN PyStr("bech32")
    ELSE IF bech32m_verify_checksum(decode_result.val.hrp, decode_result.val.data)
         THEN PyStr("bech32m")
    ELSE PyStr("Invalid")

validate_bech32(addr) == ChecksumType(decode_bech32(addr))

(***************************************************************************)
(* Address classifier                                                      *)
(***************************************************************************)
\* the codec the prefix tests of validate() select
Dispatch(addr) ==
    IF StartsWith(addr, <<49>>) \/ StartsWith(addr, <<51>>) THEN "base58"
    ELSE IF StartsWith(Lower(addr), <<98, 99, 49>>) THEN "bech32"
    ELSE "none"

\* Base58Label giving 'Legacy P2PKH' whatever the first character is
Base58LabelAlwaysLegacy(addr, ok) ==
    IF ok.tag = "Raise" THEN PyRaise
    ELSE IF ok.val THEN PyStr("Legacy P2PKH")
    ELSE PyStr("Invalid")

\* the label of an address starting with '1' or '3', ok the result of base58_check
Base58Label(addr, ok) ==
    IF ok.tag = "Raise" THEN PyRaise
    ELSE IF ok.val
         THEN (IF StartsWith(addr, <<49>>) THEN PyStr("Legacy P2PKH") ELSE PyStr("P2SH"))
    ELSE PyStr("Invalid")

ValidateBase58(addr) == Base58Label(addr, base58_check(addr))

\* Bech32Label with case-sensitive tests of the prefixes 'bc1q' and 'bc1p'
Bech32LabelCaseSensitive(addr, typ) ==
    IF typ.val = "bech32"
    THEN (IF StartsWith(addr, <<98, 99, 49, 113>>)
          THEN PyStr("Native SegWit bech32") ELSE PyStr("Unknown bech32"))
    ELSE IF typ.val = "bech32m"
    THEN (IF StartsWith(addr, <<98, 99, 49, 112>>)
          THEN PyStr("Taproot bech32m") ELSE PyStr("Unknown bech32m"))
    ELSE PyStr("Invalid")

\* the label of an address starting with 'bc1', typ the result of validate_bech32
Bech32Label(addr, typ) ==
    IF typ.val = "bech32"
    THEN (IF StartsWith(Lower(addr), <<98, 99, 49, 113>>)
          THEN PyStr("Native SegWit bech32") ELSE PyStr("Unknown bech32"))
    ELSE IF typ.val = "bech32m"
    THEN (IF StartsWith(Lower(addr), <<98, 99, 49, 112>>)
          THEN PyStr("Taproot bech32m") ELSE PyStr("Unknown bech32m"))
    ELSE PyStr("Invalid")

ValidateBech32(addr) == Bech32Label(addr, validate_bech32(addr))

validate(addr) ==
    IF Dispatch(addr) = "base58" THEN ValidateBase58(addr)
    ELSE IF Dispatch(addr) = "bech32" THEN ValidateBech32(addr)
    ELSE PyStr("Invalid")

(***************************************************************************)
(* Inputs.  The seeds are strings the program is run on: the examples of   *)
(* its documentation and short strings with a correct checksum.  Each      *)
(* specification starts from a seed or from a variant of one.              *)
(***************************************************************************)
\* "1A1zP1eP5QGefi2DMPTfTL5SLmv7DivfNa" -- usage example of the module docstring
P2PKH_GENESIS ==
    <<49, 65, 49, 122, 80, 49, 101, 80, 53, 81, 71, 101, 102, 105, 50, 68, 77, 80, 84,
      102, 84, 76, 53, 83, 76, 109, 118, 55, 68, 105, 118, 102, 78, 97>>

\* "3J98t1WpEZ73CNmQviecrnyiWrnqRhWNLy" -- a pay-to-script-hash address
P2SH_EXAMPLE ==
    <<51, 74, 57, 56, 116, 49, 87, 112, 69, 90, 55, 51, 67, 78, 109, 81, 118, 105, 101,
      99, 114, 110, 121, 105, 87, 114, 110, 113, 82, 104, 87, 78, 76, 121>>

\* "1Wh4bh" -- Base58Check of the one byte 0x00
B58_ONE_ZERO == <<49, 87, 104, 52, 98, 104>>

\* "3QJmnh" -- Base58Check of the empty payload
B58_EMPTY == <<51, 81, 74, 109, 110, 104>>

\* "112edB6q" -- Base58Check of two zero bytes
B58_TWO_ZEROS == <<49, 49, 50, 101, 100, 66, 54, 113>>

\* "bc1qxy2kgdygjrsqtzq2n0yrf2493p83kkfjhx0wlh" -- usage example of the module docstring
SEGWIT_EXAMPLE ==
    <<98, 99, 49, 113, 120, 121, 50, 107, 103, 100, 121, 103, 106, 114, 115, 113, 116,
      122, 113, 50, 110, 48, 121, 114, 102, 50, 52, 57, 51, 112, 56, 51, 107, 107, 102,
      106, 104, 120, 48, 119, 108, 104>>

\* "bc1p0xlxvlhemja6c4dqv22uapctqupfhlxm9h8z3k2e72q4k9hcz7vqzk5jj0" -- a pay-to-taproot address
TAPROOT_EXAMPLE ==
    <<98, 99, 49, 112, 48, 120, 108, 120, 118, 108, 104, 101, 109, 106, 97, 54, 99, 52,
      100, 113, 118, 50, 50, 117, 97, 112, 99, 116, 113, 117, 112, 102, 104, 108, 120,
      109, 57, 104, 56, 122, 51, 107, 50, 101, 55, 50, 113, 52, 107, 57, 104, 99, 122, 55,
      118, 113, 122, 107, 53, 106, 106, 48>>

\* "bc1q5feryxhrdz9m6y09mr8wrerwzgj6f8ntxvhxyrdlm5aahn0t09nl4ujy8624fl6zy54klay937yrnujcgn7787" -- 90 characters, Bech32 checksum
SEGWIT_90 ==
    <<98, 99, 49, 113, 53, 102, 101, 114, 121, 120, 104, 114, 100, 122, 57, 109, 54, 121,
      48, 57, 109, 114, 56, 119, 114, 101, 114, 119, 122, 103, 106, 54, 102, 56, 110, 116,
      120, 118, 104, 120, 121, 114, 100, 108, 109, 53, 97, 97, 104, 110, 48, 116, 48, 57,
      110, 108, 52, 117, 106, 121, 56, 54, 50, 52, 102, 108, 54, 122, 121, 53, 52, 107,
      108, 97, 121, 57, 51, 55, 121, 114, 110, 117, 106, 99, 103, 110, 55, 55, 56, 55>>

\* "bc1q9zpgru" -- hrp bc, data q, Bech32 checksum
BC_Q_BECH32 == <<98, 99, 49, 113, 57, 122, 112, 103, 114, 117>>

\* "bc1pdg93mv" -- hrp bc, data p, Bech32m checksum
BC_P_BECH32M == <<98, 99, 49, 112, 100, 103, 57, 51, 109, 118>>

\* "bc1zk8qts3" -- hrp bc, data z, Bech32 checksum
BC_Z_BECH32 == <<98, 99, 49, 122, 107, 56, 113, 116, 115, 51>>

\* "bc1zrms84n" -- hrp bc, data z, Bech32m checksum
BC_Z_BECH32M == <<98, 99, 49, 122, 114, 109, 115, 56, 52, 110>>

\* "bc1qs73yx7" -- hrp bc, data q, Bech32m checksum
BC_Q_BECH32M == <<98, 99, 49, 113, 115, 55, 51, 121, 120, 55>>

\* "bc1pc54a7w" -- hrp bc, data p, Bech32 checksum
BC_P_BECH32 == <<98, 99, 49, 112, 99, 53, 52, 97, 55, 119>>

\* "bc1gmk9yu" -- hrp bc, no data, Bech32 checksum
BC_EMPTY_BECH32 == <<98, 99, 49, 103, 109, 107, 57, 121, 117>>

\* "bc1q1pajmhg" -- hrp bc1q, no data, Bech32 checksum
BC1Q_HRP_BECH32 == <<98, 99, 49, 113, 49, 112, 97, 106, 109, 104, 103>>

\* "bc1p1fhkz0c" -- hrp bc1p, no data, Bech32m checksum
BC1P_HRP_BECH32M == <<98, 99, 49, 112, 49, 102, 104, 107, 122, 48, 99>>

\* "tb1q06v2t0" -- hrp tb, data q, Bech32 checksum
TB_Q_BECH32 == <<116, 98, 49, 113, 48, 54, 118, 50, 116, 48>>

\* "not-an-address"
NOT_AN_ADDRESS == <<110, 111, 116, 45, 97, 110, 45, 97, 100, 100, 114, 101, 115, 115>>

\* "bc1pxy2kgdygjrsqtzq2n0yrf2493p83kkfjhx0wlhxvxe" -- no valid checksum
TAPROOT_BAD_CHECKSUM ==
    <<98, 99, 49, 112, 120, 121, 50, 107, 103, 100, 121, 103, 106, 114, 115, 113, 116,
      122, 113, 50, 110, 48, 121, 114, 102, 50, 52, 57, 51, 112, 56, 51, 107, 107, 102,
      106, 104, 120, 48, 119, 108, 104, 120, 118, 120, 101>>

Base58Seeds == {P2PKH_GENESIS, P2SH_EXAMPLE, B58_ONE_ZERO, B58_EMPTY, B58_TWO_ZEROS}

Bech32Seeds ==
    {SEGWIT_EXAMPLE, TAPROOT_EXAMPLE, SEGWIT_90, BC_Q_BECH32,
     BC_P_BECH32M, BC_Z_BECH32, BC_Z_BECH32M, BC_Q_BECH32M,
     BC_P_BECH32, BC_EMPTY_BECH32, BC1Q_HRP_BECH32, BC1P_HRP_BECH32M,
     TB_Q_BECH32}

OtherSeeds == {<<>>, NOT_AN_ADDRESS, TAPROOT_BAD_CHECKSUM}

\* the positions of s that variants change: the first MaxPos and the last
MaxPos == 4

Positions(s) == {i \in 1..Len(s) : i <= MaxPos \/ i = Len(s)}

\* the characters variants put in: '1', '3', 'q', 'b', 'Q', '0', ' ', U+00E9
VariantChars == {49, 51, 113, 98, 81, 48, 32, 233}

SubstAt(s, i, c) == [s EXCEPT ![i] = c]

Variants(s) ==
    {s, Upper(s)}
    \cup {SubstAt(s, i, UpperChar(s[i])) : i \in Positions(s)}
    \cup {SubstAt(s, i, c) : i \in Positions(s), c \in VariantChars}
    \cup {SubSeq(s, 1, n) : n \in {m \in 0..MaxPos : m <= Len(s)}}
    \cup {Append(s, c) : c \in VariantChars}

\* every string of at most n characters of the set chars
Strings(chars, n) == UNION {[1..k -> chars] : k \in 0..n}

\* strings for base58_decode and base58_check: '1', '2', 'z' and '0' (not in the alphabet)
MaxB58Len == 4

Base58Inputs == Strings({49, 50, 122, 48}, MaxB58Len) \cup UNION {Variants(s) : s \in Base58Seeds}

\* strings for decode_bech32 and validate_bech32: '1', 'q' and 'b' (not in the charset)
MaxBech32Len == 8

Bech32Inputs ==
    Strings({49, 113, 98}, MaxBech32Len) \cup UNION {Variants(s) : s \in Bech32Seeds \cup OtherSeeds}

\* strings for validate
Inputs == UNION {Variants(s) : s \in Base58Seeds \cup Bech32Seeds \cup OtherSeeds}

(***************************************************************************)
(* The calls.  One action is one call of a function of the module on the   *)
(* string `address`.                                                       *)
(***************************************************************************)
Unset == [tag |-> "unset", val |-> <<>>]

NoOrigin == [addr |-> <<>>, label |-> ""]

Start(inputs) ==
    /\ address \in inputs
    /\ pc = "start"
    /\ result = Unset
    /\ codec = "none"
    /\ dec = Unset
    /\ origin = NoOrigin

\* result = BitcoinAddressValidator.validate(address)
Validate ==
    /\ pc = "start"
    /\ result' = validate(address)
    /\ codec' = Dispatch(address)
    /\ pc' = "done"
    /\ UNCHANGED <<address, dec, origin>>

\* BitcoinAddressValidator.base58_decode(address)
Base58Decode ==
    /\ pc = "start"
    /\ dec' = base58_decode(address)
    /\ pc' = "decoded"
    /\ UNCHANGED <<address, result, codec, origin>>

\* BitcoinAddressValidator.base58_check(address)
Base58Check ==
    /\ pc = "decoded"
    /\ result' = base58_check(address)
    /\ pc' = "done"
    /\ UNCHANGED <<address, codec, dec, origin>>

\* BitcoinAddressValidator.decode_bech32(address)
Bech32Decode ==
    /\ pc = "start"
    /\ dec' = decode_bech32(address)
    /\ pc' = "decoded"
    /\ UNCHANGED <<address, result, codec, origin>>

\* BitcoinAddressValidator.validate_bech32(address)
Bech32Validate ==
    /\ pc = "decoded"
    /\ result' = validate_bech32(address)
    /\ pc' = "done"
    /\ UNCHANGED <<address, codec, dec, origin>>

Bech32Labels ==
    {"Native SegWit bech32", "Taproot bech32m", "Unknown bech32", "Unknown bech32m"}

\* the caller replaces one character after the last '1' of an address validate
\* accepted by another character of the Bech32 charset and validates again
Substitute ==
    /\ pc = "done"
    /\ origin = NoOrigin
    /\ result.val \in Bech32Labels
    /\ \E i \in (RFind(address, 49) + 2)..Len(address) :
          \E k \in 1..Len(BECH32_CHARSET) :
             /\ BECH32_CHARSET[k] # address[i]
             /\ address' = SubstAt(address, i, BECH32_CHARSET[k])
    /\ origin' = [addr |-> address, label |-> result.val]
    /\ pc' = "start"
    /\ result' = Unset
    /\ codec' = "none"
    /\ UNCHANGED dec

Init == Start(Inputs)

Next == Validate

Spec == Init /\ [][Next]_vars

InitBase58 == Start(Base58Inputs)

NextBase58 == Base58Decode \/ Base58Check

SpecBase58 == InitBase58 /\ [][NextBase58]_vars

InitBech32 == Start(Bech32Inputs)

NextBech32 == Bech32Decode \/ Bech32Validate

SpecBech32 == InitBech32 /\ [][NextBech32]_vars

InitSubst == Start(Bech32Seeds \cup {Upper(s) : s \in Bech32Seeds})

NextSubst == Validate \/ Substitute

SpecSubst == InitSubst /\ [][NextSubst]_vars

(***************************************************************************)
(* Properties.                                                             *)
(***************************************************************************)
Labels ==
    {"Legacy P2PKH", "P2SH", "Native SegWit bech32", "Taproot bech32m",
     "Unknown bech32", "Unknown bech32m", "Invalid"}

AllInAlphabet(s) == \A i \in 1..Len(s) : \E j \in 1..Len(BASE58_ALPHABET) : s[i] = BASE58_ALPHABET[j]

\* at least one uppercase and at least one lowercase letter
IsMixedCase(s) == (\E i \in 1..Len(s) : IsUpperChar(s[i])) /\ (\E i \in 1..Len(s) : IsLowerChar(s[i]))

\* C1: for every input string, the empty string and strings with characters
\* outside ASCII 33..126 included, validate returns without raising, and what
\* it returns is one of the seven labels (a call that raises returns the
\* value tagged "Raise" here).
C1_ValidateReturnsALabel ==
    pc = "done" => result.tag = "str" /\ result.val \in Labels

\* validate has returned 'Invalid' for a string with a character beyond ASCII 126
C1_Witness ==
    /\ pc = "done"
    /\ \E i \in 1..Len(address) : address[i] > 126
    /\ StartsWith(address, <<49>>)
    /\ result = PyStr("Invalid")

\* C2: validate returns 'Legacy P2PKH' exactly when the address starts with '1'
\* and base58_check(address) is true, and 'P2SH' exactly when it starts with
\* '3' and base58_check(address) is true; an address starting with '1' or '3'
\* that fails base58_check gets 'Invalid' and is dispatched to the Base58
\* codec only, never to the Bech32 codec.
C2_Base58Labels ==
    pc = "done" =>
        LET verified == (StartsWith(address, <<49>>) \/ StartsWith(address, <<51>>))
                           /\ base58_check(address) = PyBool(TRUE)
        IN /\ result.val = "Legacy P2PKH" <=> (StartsWith(address, <<49>>) /\ verified)
           /\ result.val = "P2SH" <=> (StartsWith(address, <<51>>) /\ verified)
           /\ (StartsWith(address, <<49>>) \/ StartsWith(address, <<51>>))
                 => /\ codec = "base58"
                    /\ ~verified => result = PyStr("Invalid")

\* validate has returned 'P2SH' for an address starting with '3'
C2_Witness ==
    /\ pc = "done"
    /\ StartsWith(address, <<51>>)
    /\ codec = "base58"
    /\ result = PyStr("P2SH")

\* the label the claim gives an address of the 'bc1' branch
C3_Expected(addr) ==
    LET typ == validate_bech32(addr).val
        low == Lower(addr)
    IN IF typ = "bech32" /\ StartsWith(low, <<98, 99, 49, 113>>) THEN "Native SegWit bech32"
       ELSE IF typ = "bech32" THEN "Unknown bech32"
       ELSE IF typ = "bech32m" /\ StartsWith(low, <<98, 99, 49, 112>>) THEN "Taproot bech32m"
       ELSE IF typ = "bech32m" THEN "Unknown bech32m"
       ELSE "Invalid"

\* C3: for an address that does not start with '1' or '3': when its lowercased
\* form starts with 'bc1', validate returns the label fixed by the result of
\* validate_bech32 and by the prefix 'bc1q' / 'bc1p' of the lowercased
\* address, and a fully uppercase address gets the label of its lowercase
\* form; when it does not start with 'bc1' either, validate returns 'Invalid'.
C3_Bech32Labels ==
    (pc = "done" /\ ~StartsWith(address, <<49>>) /\ ~StartsWith(address, <<51>>)) =>
        IF StartsWith(Lower(address), <<98, 99, 49>>)
        THEN /\ result = PyStr(C3_Expected(address))
             /\ codec = "bech32"
             /\ address = Upper(address) => result = validate(Lower(address))
        ELSE result = PyStr("Invalid") /\ codec = "none"

\* validate has returned 'Native SegWit bech32' for a fully uppercase address
C3_Witness ==
    /\ pc = "done"
    /\ address = Upper(address)
    /\ address # Lower(address)
    /\ StartsWith(address, <<66, 67, 49, 81>>)
    /\ result = PyStr("Native SegWit bech32")

\* C4: base58_check(s) returns true exactly when every character of s is in
\* the Base58 alphabet, base58_decode(s) has at least 4 bytes and the last 4
\* of them are the first 4 bytes of SHA256(SHA256(the bytes before them)); in
\* every other case it returns false, and it never raises.
C4_Base58Check ==
    pc = "done" =>
        result = PyBool(/\ AllInAlphabet(address)
                        /\ dec.tag = "bytes"
                        /\ Len(dec.val) >= 4
                        /\ SubSeq(dec.val, Len(dec.val) - 3, Len(dec.val))
                              = SubSeq(sha256(sha256(SubSeq(dec.val, 1, Len(dec.val) - 4))), 1, 4))

\* base58_check has returned true
C4_Witness ==
    /\ pc = "done"
    /\ AllInAlphabet(address)
    /\ Len(dec.val) > 4
    /\ result = PyBool(TRUE)

\* C5: for every string with at least one uppercase and at least one lowercase
\* letter, decode_bech32 returns None and validate_bech32 returns 'Invalid',
\* whatever the checksum; validate returns 'Invalid' for every such string
\* whose lowercased form starts with 'bc1'.
C5_MixedCaseRejected ==
    (pc = "done" /\ IsMixedCase(address)) =>
        /\ decode_bech32(address) = PyNone
        /\ validate_bech32(address) = PyStr("Invalid")
        /\ StartsWith(Lower(address), <<98, 99, 49>>) => result = PyStr("Invalid")

\* validate has returned 'Invalid' for a mixed-case string whose lowercase
\* form is an address with a correct checksum
C5_Witness ==
    /\ pc = "done"
    /\ IsMixedCase(address)
    /\ Lower(address) = SEGWIT_EXAMPLE
    /\ result = PyStr("Invalid")

\* validate_bech32 trying the Bech32m checksum before the Bech32 checksum
C6_Bech32mFirst(decode_result) ==
    IF decode_result.tag = "None" THEN PyStr("Invalid")
    ELSE IF bech32m_verify_checksum(decode_result.val.hrp, decode_result.val.data)
         THEN PyStr("bech32m")
    ELSE IF bech32_verify_checksum(decode_result.val.hrp, decode_result.val.data)
         THEN PyStr("bech32")
    ELSE PyStr("Invalid")

\* C6: for every (hrp, data) pair decode_bech32 produces, the Bech32 and the
\* Bech32m checksum tests are never both true; validate_bech32 returns one of
\* 'bech32', 'bech32m', 'Invalid', and the same value when the two tests are
\* tried in the other order.
C6_ChecksumsExclusive ==
    /\ (pc # "start" /\ dec.tag = "tuple") =>
          ~(/\ bech32_verify_checksum(dec.val.hrp, dec.val.data)
            /\ bech32m_verify_checksum(dec.val.hrp, dec.val.data))
    /\ pc = "done" =>
          /\ result.tag = "str" /\ result.val \in {"bech32", "bech32m", "Invalid"}
          /\ result = C6_Bech32mFirst(dec)

\* validate_bech32 has returned 'bech32m' for a decoded pair
C6_Witness ==
    /\ pc = "done"
    /\ dec.tag = "tuple"
    /\ bech32m_verify_checksum(dec.val.hrp, dec.val.data)
    /\ result = PyStr("bech32m")

\* the 1-based positions of the character '1' in s
C7_SeparatorPositions(s) == {i \in 1..Len(s) : s[i] = 49}

\* the 1-based position of the last '1' of s, 0 when there is none
C7_LastSeparator(s) ==
    IF C7_SeparatorPositions(s) = {} THEN 0
    ELSE CHOOSE i \in C7_SeparatorPositions(s) : \A j \in C7_SeparatorPositions(s) : j <= i

\* the conditions under which the claim says decode_bech32 fails
C7_MustFail(addr) ==
    LET low == Lower(addr)
        sep == C7_LastSeparator(low)
    IN \/ sep = 0
       \/ sep = 1
       \/ Len(low) - sep < 6
       \/ \E i \in 1..Len(addr) : addr[i] < 33 \/ addr[i] > 126
       \/ \E i \in (sep + 1)..Len(low) : \A j \in 1..Len(BECH32_CHARSET) : BECH32_CHARSET[j] # low[i]

\* C7: decode_bech32 splits at the last '1' of the lowercased address.  It
\* returns None when there is no '1', when the last '1' is the first
\* character, when fewer than 6 characters follow it, when a code point lies
\* outside 33..126, or when a character after it is not in the charset (and
\* otherwise only for mixed case); when it succeeds the hrp is non-empty and
\* lowercase, there are at least 6 data values, each in 0..31 and each the
\* charset index of its character, and hrp + '1' + the data characters is the
\* lowercased input.
C7_DecodeBech32 ==
    pc # "start" =>
        /\ dec.tag \in {"None", "tuple"}
        /\ dec = PyNone <=> (C7_MustFail(address) \/ IsMixedCase(address))
        /\ dec.tag = "tuple" =>
              LET hrp == dec.val.hrp
                  data == dec.val.data
              IN /\ Len(hrp) > 0
                 /\ Lower(hrp) = hrp
                 /\ Len(hrp) = C7_LastSeparator(Lower(address)) - 1
                 /\ Len(data) >= 6
                 /\ \A i \in 1..Len(data) : data[i] \in 0..31
                 /\ hrp \o <<49>> \o [i \in 1..Len(data) |-> BECH32_CHARSET[data[i] + 1]]
                       = Lower(address)

\* decode_bech32 has succeeded on a string with two separators: the hrp holds
\* the first of them
C7_Witness ==
    /\ pc # "start"
    /\ dec.tag = "tuple"
    /\ Cardinality(C7_SeparatorPositions(address)) = 2
    /\ 49 \in {dec.val.hrp[i] : i \in 1..Len(dec.val.hrp)}
    /\ Len(dec.val.data) = 6

\* the number of leading '1' characters of s
C8_LeadingOnes(s) == Cardinality({i \in 1..Len(s) : \A j \in 1..i : s[j] = 49})

\* long division of the big-endian byte sequence b by 58: quotient and remainder
C8_DivMod58(b) ==
    LET Step(acc, byte) ==
            [quot |-> Append(acc.quot, (acc.rem * 256 + byte) \div 58),
             rem |-> (acc.rem * 256 + byte) % 58]
    IN FoldLeft(Step, [quot |-> <<>>, rem |-> 0], b)

\* b, read as a big-endian number, is the number the Base58 digits spell:
\* dividing by 58 once per digit, last digit first, leaves the digits as the
\* remainders and zero as the last quotient
C8_HasBase58Value(b, digits) ==
    LET Step(acc, char) ==
            [num |-> C8_DivMod58(acc.num).quot,
             ok |-> acc.ok /\ BASE58_ALPHABET[C8_DivMod58(acc.num).rem + 1] = char]
        r == FoldLeft(Step, [num |-> b, ok |-> TRUE], Reverse(digits))
    IN r.ok /\ \A i \in 1..Len(r.num) : r.num[i] = 0

\* C8: for a string s over the Base58 alphabet with k leading '1' characters,
\* base58_decode(s) is k zero bytes followed by the minimal big-endian bytes
\* of the base-58 value of s: the first byte after the k zero bytes, if any,
\* is not zero, and the bytes after them have the value the remaining digits
\* spell.  So k '1' characters decode to k zero bytes and the empty string to
\* the empty byte sequence.
C8_Base58Decode ==
    (pc # "start" /\ AllInAlphabet(address)) =>
        /\ dec.tag = "bytes"
        /\ LET k == C8_LeadingOnes(address)
               rest == SubSeq(dec.val, k + 1, Len(dec.val))
           IN /\ Len(dec.val) >= k
              /\ SubSeq(dec.val, 1, k) = Zeros(k)
              /\ rest # <<>> => rest[1] # 0
              /\ C8_HasBase58Value(rest, SubSeq(address, k + 1, Len(address)))
              /\ k = Len(address) => dec.val = Zeros(k)

\* base58_decode has returned two zero bytes and more for a string with two
\* leading '1' characters and a '1' further on
C8_Witness ==
    /\ pc # "start"
    /\ AllInAlphabet(address)
    /\ C8_LeadingOnes(address) = 2
    /\ NPadEveryOne(address) > 2
    /\ dec.tag = "bytes"
    /\ Len(dec.val) > 2
    /\ dec.val[3] # 0

\* C9: whenever validate returns 'Native SegWit bech32' or 'Taproot bech32m',
\* the human-readable part decode_bech32 extracts from the address is 'bc'.
C9_HrpIsBc ==
    (pc = "done" /\ result.val \in {"Native SegWit bech32", "Taproot bech32m"}) =>
        decode_bech32(address).val.hrp = <<98, 99>>

\* validate has returned 'Native SegWit bech32' for an address whose
\* human-readable part is 'bc1q' and whose payload is empty
C9_Witness ==
    /\ pc = "done"
    /\ address = BC1Q_HRP_BECH32
    /\ decode_bech32(address) = PyTuple(<<98, 99, 49, 113>>, <<1, 29, 18, 27, 23, 8>>)
    /\ result = PyStr("Native SegWit bech32")

\* what replacing one data value changes in the polymod: bech32_polymod is
\* built from shifts and exclusive-ors only, so replacing the value j places
\* before the end by a value that differs from it by e (as an exclusive-or)
\* changes the polymod by the chk that e followed by j zeros produces from
\* chk = 0.  The set holds these changes for e and for j = 0 .. 86, the
\* places an address of at most 90 characters starting with 'bc1' has.
C10_Changes(e) ==
    LET Step(acc, j) ==
            [chk |-> PolymodStep(acc.chk, 0), seen |-> acc.seen \cup {PolymodStep(acc.chk, 0)}]
    IN FoldLeft(Step, [chk |-> Bits(e), seen |-> {Bits(e)}], Range(1, 86)).seen

C10_AllChanges == UNION {C10_Changes(e) : e \in 1..31}

\* C10: when an address of at most 90 characters that validate labelled
\* 'Native SegWit bech32', 'Taproot bech32m', 'Unknown bech32' or 'Unknown
\* bech32m' has one character after its last '1' replaced by a different
\* character of the Bech32 charset, validate returns 'Invalid' for the result;
\* and no replacement of one data value leaves the polymod as it is or takes
\* it from one checksum constant to the other.
C10_SubstitutionDetected ==
    /\ (pc = "done" /\ origin # NoOrigin /\ Len(origin.addr) <= 90) =>
          result = PyStr("Invalid")
    /\ {} \notin C10_AllChanges
    /\ SymDiff(Bits(BECH32_CONST), Bits(BECH32M_CONST)) \notin C10_AllChanges

\* validate has returned 'Invalid' for a 90-character address that differs in
\* one checksum character from an address it labelled 'Native SegWit bech32'
C10_Witness ==
    /\ pc = "done"
    /\ origin.label = "Native SegWit bech32"
    /\ Len(origin.addr) = 90
    /\ Len(address) = 90
    /\ address[85] # origin.addr[85]
    /\ result = PyStr("Invalid")

====
